---- MODULE Spec2Model ----
(***************************************************************************)
(* Book Finder (src/src/App.jsx): the query builder, the debounced and     *)
(* cancelable fetch cycle of the App component, paging, and the favorites  *)
(* list with its localStorage entry.                                       *)
(*                                                                         *)
(* One action is one task of the browser's event loop: a DOM event handler *)
(* together with the render and the effects React runs for it, a timer     *)
(* callback, or the settlement of a fetch promise chain.  The reactions of *)
(* a promise rejected by AbortController.abort() are microtasks: they run  *)
(* before the next task, which MicrotasksPending expresses.                *)
(*                                                                         *)
(* Text is a sequence of one-character strings, so that trim() is          *)
(* computed; a query string is the ordered sequence of <<name, value>>     *)
(* pairs held by URLSearchParams; a stored string is a sequence of JSON    *)
(* tokens, written by stringify and read back by JSONparse.                *)
(***************************************************************************)
EXTENDS Integers, Sequences, FiniteSets, TLC

VARIABLES
    title, author, subject, language, yearFrom, yearTo, sort, page,
    results, numFound, loading, error, favorites,
    abortRef,     \* abortRef.current: the id of the newest AbortController
    aborted,      \* ids of the controllers whose signal is aborted
    timers,       \* pending setTimeout callbacks of the fetch effect
    fetches,      \* fetch promise chains that have not settled
    sinceChange,  \* ms since the last change of any filter field or page
    sinceUrl,     \* ms since the last change of url
    recency,      \* keys of the favorites ever added and not removed, newest first
    lastOp,       \* the task that ran last
    storage,      \* the localStorage entry "bookfinder:favorites"
    env,          \* whether setItem works, whether it has thrown, the entry met at startup
    phase,        \* "start" before the first render, then "running" or "crashed"
    fresh         \* results / error were written by a request for the current url

vars == <<title, author, subject, language, yearFrom, yearTo, sort, page,
          results, numFound, loading, error, favorites, abortRef, aborted,
          timers, fetches, sinceChange, sinceUrl, recency, lastOp,
          storage, env, phase, fresh>>

filterVars == <<title, author, subject, language, yearFrom, yearTo, sort, page>>
fetchVars == <<abortRef, aborted, timers, fetches, loading, error>>
storeVars == <<storage, env, phase>>

\* ------------------------------------------------------------------ bounds

\* Search results carry documents with keys 1..MaxDoc.
MaxDoc == 1
\* Time advances in steps of TickMs milliseconds.
TickMs == 200
\* At most MaxEdited filter fields differ from their initial value at a time.
MaxEdited == 1
\* The favorites specification toggles MaxNew documents that were never stored.
MaxNew == 1
\* The storage specification starts from stored lists of up to MaxStored
\* documents.
MaxStored == 1
\* The query builder specification builds urls for pages 1..MaxPageArg.
MaxPageArg == 2

\* ------------------------------------------------------- program constants

pageSize == 20
\* The delay handed to setTimeout by the fetch effect.
shortDelay == 400 \div 10
setTimeoutDelay == 400
\* The quiet period the debounce is specified to wait for.
QuietMs == 400
\* [doc, ...prev].slice(0, 100)
FavLimit == 100

\* --------------------------------------------------------------- helpers

Min(a, b) == IF a < b THEN a ELSE b
Max(a, b) == IF a > b THEN a ELSE b
Range(s) == {s[i] : i \in 1..Len(s)}

IsSpace(c) == c \in {" ", "\t"}

RECURSIVE trimStart(_)
trimStart(s) ==
    IF s # <<>> /\ IsSpace(Head(s)) THEN trimStart(Tail(s)) ELSE s

RECURSIVE trimEnd(_)
trimEnd(s) ==
    IF s # <<>> /\ IsSpace(s[Len(s)]) THEN trimEnd(SubSeq(s, 1, Len(s) - 1)) ELSE s

\* String.prototype.trim
trim(s) == trimEnd(trimStart(s))

Digit(d) == CASE d = 0 -> "0" [] d = 1 -> "1" [] d = 2 -> "2" [] d = 3 -> "3"
              [] d = 4 -> "4" [] d = 5 -> "5" [] d = 6 -> "6" [] d = 7 -> "7"
              [] d = 8 -> "8" [] OTHER -> "9"

RECURSIVE String(_)
\* String(page): the decimal digits of a non-negative integer
String(n) == IF n < 10 THEN <<Digit(n)>> ELSE String(n \div 10) \o <<Digit(n % 10)>>

\* ----------------------------------------------------------- query builder

\* if (v.trim()) qs.set(name, v.trim())
textParamNoTrim(name, v) == IF trim(v) # <<>> THEN << <<name, v>> >> ELSE <<>>
textParam(name, v) == IF trim(v) # <<>> THEN << <<name, trim(v)>> >> ELSE <<>>

\* if (language) qs.set("language", language)
languageParam(v) == IF v # <<>> THEN << <<"language", v>> >> ELSE <<>>

\* if (yearFrom || yearTo) { const from = yearFrom || "*"; const to = yearTo || "*";
\*   qs.set("q", `first_publish_year:[${from} TO ${to}]`) }
yearParamBoth(yFrom, yTo) ==
    IF yFrom # <<>> /\ yTo # <<>>
    THEN << <<"q", <<"first_publish_year:[">> \o yFrom \o <<" TO ">> \o yTo \o <<"]">> >> >>
    ELSE <<>>
yearParam(yFrom, yTo) ==
    IF yFrom # <<>> \/ yTo # <<>>
    THEN LET from == IF yFrom # <<>> THEN yFrom ELSE <<"*">>
             to == IF yTo # <<>> THEN yTo ELSE <<"*">>
         IN << <<"q", <<"first_publish_year:[">> \o from \o <<" TO ">> \o to \o <<"]">> >> >>
    ELSE <<>>

\* switch (sort) { ... default: break }
sortParamAny(s) ==
    CASE s = "year_asc" -> << <<"sort", <<"first_publish_year asc">> >> >>
      [] s = "year_desc" -> << <<"sort", <<"first_publish_year desc">> >> >>
      [] s = "editions_desc" -> << <<"sort", <<"edition_count desc">> >> >>
      [] s = "relevance" -> <<>>
      [] OTHER -> << <<"sort", <<s>> >> >>
sortParam(s) ==
    CASE s = "year_asc" -> << <<"sort", <<"first_publish_year asc">> >> >>
      [] s = "year_desc" -> << <<"sort", <<"first_publish_year desc">> >> >>
      [] s = "editions_desc" -> << <<"sort", <<"edition_count desc">> >> >>
      [] OTHER -> <<>>

\* The URLSearchParams entries in the order the code sets them; the URL is the
\* fixed endpoint followed by their serialisation, which is one-to-one.
buildSearchURL(p) ==
    textParam("title", p.title)
    \o textParam("author", p.author)
    \o textParam("subject", p.subject)
    \o languageParam(p.language)
    \o yearParam(p.yearFrom, p.yearTo)
    \o << <<"page", String(p.page)>> >>
    \o sortParam(p.sort)

params ==
    [title |-> title, author |-> author, subject |-> subject, language |-> language,
     yearFrom |-> yearFrom, yearTo |-> yearTo, sort |-> sort, page |-> page]

\* const url = useMemo(() => buildSearchURL({...}), [...])
url == buildSearchURL(params)

\* const totalPages = Math.max(1, Math.ceil(numFound / pageSize))
totalPagesFloor(n) == n \div pageSize + 1
totalPagesOf(n) == Max(1, (n + pageSize - 1) \div pageSize)
totalPages == totalPagesOf(numFound)

\* ------------------------------------------------------------- user inputs

\* What the user types or selects in each control.
TitleInputs == {<<>>, <<"D">>, <<" ", "D", " ">>}
AuthorInputs == {<<>>, <<"H">>}
SubjectInputs == {<<>>, <<"s">>}
LanguageInputs == {<<>>, <<"eng">>}
YearFromInputs == {<<>>, <<"1", "9", "9", "0">>}
YearToInputs == {<<>>, <<"2", "0", "0", "0">>}
SortInputs == {"relevance", "editions_desc"}

\* ------------------------------------------------------- server responses

Doc(k, r) == [key |-> k, rev |-> r]
DocLists == {<<>>} \cup {[i \in 1..n |-> Doc(i, 0)] : n \in 1..MaxDoc}
NumFounds == {0, 40, 45}
\* A parsed JSON body; a field may be missing (has... = FALSE).
JsonBodies ==
    {[hasDocs |-> TRUE, docs |-> d, hasNumFound |-> TRUE, numFound |-> n] :
        d \in DocLists \ {<<>>}, n \in NumFounds \ {0}}
    \cup {[hasDocs |-> TRUE, docs |-> <<>>, hasNumFound |-> TRUE, numFound |-> 0]}
    \cup {[hasDocs |-> FALSE, docs |-> <<>>, hasNumFound |-> FALSE, numFound |-> 0]}
HttpErrorStatuses == {"500"}
NetworkMessages == {<<"Failed to fetch">>}

\* ------------------------------------------------------------ fetch effect

NoError == <<>>

\* AbortController.abort() on controller c
abortNever(c, ab) == ab
abort(c, ab) == ab \cup {c}

\* { signal: ctl.signal }: the init object handed to fetch
fetchInitNoSignal(ctl) == [signal |-> 0]
fetchInit(ctl) == [signal |-> ctl]

Aborted(f) == f.signal \in aborted
Live(f) == ~Aborted(f)
\* Reactions of a rejected promise are queued and run before the next task.
MicrotasksPending == \E f \in fetches : Aborted(f)

\* The controller state the effect reads and writes, as one record.
ctlState ==
    [abortRef |-> abortRef, aborted |-> aborted, timers |-> timers,
     fetches |-> fetches, loading |-> loading, error |-> error]

InUse(ts, fs) == {t.ctl : t \in ts} \cup {f.signal : f \in fs}
\* new AbortController(): an identity no timer, fetch or ref holds
NewCtl(st) ==
    LET used == InUse(st.timers, st.fetches) \cup {st.abortRef}
    IN CHOOSE i \in 1..(Cardinality(used) + 1) : i \notin used

\* return () => { clearTimeout(t); ctl.abort(); }
\* t and ctl are those of the effect run being cleaned up; ctl is abortRef.current,
\* which only the effect assigns.
cleanupNoClear(st) ==
    [st EXCEPT !.aborted = abort(st.abortRef, st.aborted)]
cleanup(st) ==
    [st EXCEPT !.timers = {t \in st.timers : t.ctl # st.abortRef},
               !.aborted = abort(st.abortRef, st.aborted)]

\* The body of useEffect(() => {...}, [url]) for the url u; sup records whether
\* this cycle replaces a request that was in flight, re whether it replaces a
\* timer that was pending.
effectBodyKeepError(st, u, sup, re) ==
    LET ab == IF st.abortRef # 0 THEN abort(st.abortRef, st.aborted) ELSE st.aborted
        ctl == NewCtl(st)
        ts == st.timers \cup
                {[ctl |-> ctl, url |-> u, remaining |-> setTimeoutDelay, supersedes |-> sup,
                  restarted |-> re]}
    IN [abortRef |-> ctl,
        aborted |-> ab \cap InUse(ts, st.fetches),
        timers |-> ts,
        fetches |-> st.fetches,
        loading |-> TRUE,
        error |-> st.error]
effectBody(st, u, sup, re) ==
    LET ab == IF st.abortRef # 0 THEN abort(st.abortRef, st.aborted) ELSE st.aborted
        ctl == NewCtl(st)
        ts == st.timers \cup
                {[ctl |-> ctl, url |-> u, remaining |-> setTimeoutDelay, supersedes |-> sup,
                  restarted |-> re]}
    IN [abortRef |-> ctl,
        aborted |-> ab \cap InUse(ts, st.fetches),
        timers |-> ts,
        fetches |-> st.fetches,
        loading |-> TRUE,
        error |-> NoError]

\* React runs the cleanup of the previous run, then the effect, when url changed.
fetchEffect(st, u) ==
    LET sup == \/ \E f \in st.fetches : f.signal \notin st.aborted
               \/ \E t \in st.timers : t.ctl = st.abortRef /\ t.supersedes
        re == \E t \in st.timers : t.ctl = st.abortRef
    IN effectBody(cleanup(st), u, sup, re)

\* .catch((e) => { if (e.name !== "AbortError") setError(e.message || "Something went wrong") })
catchAll(e, err) ==
    IF e.message # <<>> THEN e.message ELSE <<"Something went wrong">>
catchError(e, err) ==
    IF e.name # "AbortError"
    THEN (IF e.message # <<>> THEN e.message ELSE <<"Something went wrong">>)
    ELSE err

\* The rejections queued by abort() run: catch ignores them, finally clears loading.
settleAborted(st) ==
    IF \E f \in st.fetches : f.signal \in st.aborted
    THEN LET fs == {f \in st.fetches : f.signal \notin st.aborted}
         IN [st EXCEPT !.fetches = fs,
                       !.aborted = st.aborted \cap InUse(st.timers, fs),
                       !.loading = FALSE,
                       !.error = catchError([name |-> "AbortError", message |-> <<"aborted">>],
                                            st.error)]
    ELSE st

\* ------------------------------------------------------------- favorites

\* function toggleFavorite(doc): the updater handed to setFavorites
slice(s, a, b) == SubSeq(s, a + 1, Min(b, Len(s)))
toggleNoSlice(prev, doc) ==
    LET key == doc.key
        exists == \E i \in 1..Len(prev) : prev[i].key = key
        Other(d) == d.key # key
    IN IF exists THEN SelectSeq(prev, Other) ELSE <<doc>> \o prev
toggleByDoc(prev, doc) ==
    LET exists == \E i \in 1..Len(prev) : prev[i] = doc
        Other(d) == d # doc
    IN IF exists THEN SelectSeq(prev, Other)
       ELSE slice(<<doc>> \o prev, 0, FavLimit)
toggleNoRemove(prev, doc) ==
    LET key == doc.key
        exists == \E i \in 1..Len(prev) : prev[i].key = key
    IN IF exists THEN prev ELSE slice(<<doc>> \o prev, 0, FavLimit)
toggleFavorite(prev, doc) ==
    LET key == doc.key
        exists == \E i \in 1..Len(prev) : prev[i].key = key
        Other(d) == d.key # key
    IN IF exists THEN SelectSeq(prev, Other)
       ELSE slice(<<doc>> \o prev, 0, FavLimit)

\* function isFav(doc)
isFav(favs, doc) == \E i \in 1..Len(favs) : favs[i].key = doc.key

Keys(favs) == [i \in 1..Len(favs) |-> favs[i].key]
Without(ks, k) == LET Other(x) == x # k IN SelectSeq(ks, Other)

\* ---------------------------------------------------------- localStorage

\* A stored string is a sequence of JSON tokens; an object is one token that
\* carries the fields of the document.
Tok(k) == [k |-> k, key |-> 0, rev |-> 0]
ObjTok(doc) == [k |-> "{}", key |-> doc.key, rev |-> doc.rev]

\* JSON.stringify(value) for a list of documents: "[", the objects separated
\* by ",", "]".
stringify(v) ==
    LET n == IF Len(v) = 0 THEN 2 ELSE 2 * Len(v) + 1
    IN  [i \in 1..n |-> IF i = 1 THEN Tok("[")
                        ELSE IF i = n THEN Tok("]")
                        ELSE IF i % 2 = 0 THEN ObjTok(v[i \div 2])
                        ELSE Tok(",")]

\* The text between "[" and "]" is empty or objects separated by ",".
IsElements(ts) ==
    \/ Len(ts) = 0
    \/ /\ Len(ts) % 2 = 1
       /\ \A i \in 1..Len(ts) : ts[i].k = (IF i % 2 = 1 THEN "{}" ELSE ",")

\* JSON.parse(raw): an array of objects, null, a single object, or a
\* SyntaxError.
JSONparse(raw) ==
    IF Len(raw) = 1 /\ raw[1].k = "null"
    THEN [threw |-> FALSE, kind |-> "null", value |-> <<>>]
    ELSE IF Len(raw) = 1 /\ raw[1].k = "{}"
    THEN [threw |-> FALSE, kind |-> "object", value |-> <<>>]
    ELSE IF /\ Len(raw) >= 2 /\ raw[1].k = "[" /\ raw[Len(raw)].k = "]"
            /\ IsElements(SubSeq(raw, 2, Len(raw) - 1))
         THEN [threw |-> FALSE, kind |-> "array",
               value |-> [j \in 1..(Len(raw) - 1) \div 2 |->
                             Doc(raw[2 * j].key, raw[2 * j].rev)]]
    ELSE [threw |-> TRUE, kind |-> "none", value |-> <<>>]

Absent == [present |-> FALSE, raw |-> <<>>]
Stored(raw) == [present |-> TRUE, raw |-> raw]

\* The useState initializer of useLocalStorage:
\*   try { const raw = localStorage.getItem(key);
\*         return raw ? JSON.parse(raw) : initialValue } catch { return initialValue }
readInitial(readable, st, initialValue) ==
    IF ~readable THEN [kind |-> "array", value |-> initialValue]
    ELSE IF ~st.present \/ st.raw = <<>> THEN [kind |-> "array", value |-> initialValue]
    ELSE LET r == JSONparse(st.raw)
         IN  IF r.threw THEN [kind |-> "array", value |-> initialValue]
             ELSE [kind |-> r.kind, value |-> r.value]

\* The effect of useLocalStorage, run after the first render and after every
\* render that changed value:
\*   try { localStorage.setItem(key, JSON.stringify(value)) } catch {}
\* threw: setItem threw; escaped: the exception left the effect.
persistKeepEntry(e, st, value) ==
    IF e.writable /\ ~st.present
    THEN [storage |-> Stored(stringify(value)), threw |-> FALSE, escaped |-> FALSE]
    ELSE [storage |-> st, threw |-> ~e.writable, escaped |-> FALSE]
persistSkipEmpty(e, st, value) ==
    IF e.writable /\ Len(value) > 0
    THEN [storage |-> Stored(stringify(value)), threw |-> FALSE, escaped |-> FALSE]
    ELSE [storage |-> st, threw |-> ~e.writable, escaped |-> FALSE]
persistNoCatch(e, st, value) ==
    IF e.writable THEN [storage |-> Stored(stringify(value)), threw |-> FALSE, escaped |-> FALSE]
    ELSE [storage |-> st, threw |-> TRUE, escaped |-> TRUE]
persistEffect(e, st, value) ==
    IF e.writable THEN [storage |-> Stored(stringify(value)), threw |-> FALSE, escaped |-> FALSE]
    ELSE [storage |-> st, threw |-> TRUE, escaped |-> FALSE]


Op(name) == [op |-> name, page |-> page, flag |-> FALSE, key |-> 0, prevKey |-> 0]

\* useEffect(() => { setPage(1) }, [title, author, subject, language, yearFrom, yearTo, sort])
noPageReset(p) == p
pageResetEffect(p) == [p EXCEPT !.page = 1]

\* The number of filter fields that differ from their initial value.
Edited(p) ==
    Cardinality({n \in {"title", "author", "subject", "language", "yearFrom", "yearTo"} :
                    p[n] # <<>>})
    + (IF p.sort # "relevance" THEN 1 ELSE 0)

\* A change of filter fields to p2 (p2.page = page): the render, the fetch effect
\* if url changed, the page-reset effect, and the second render and fetch effect
\* that setPage(1) causes when page was not 1.  A rejection queued by the first
\* cleanup may run before or after the second pass.
FilterChange(p2) ==
    /\ ~MicrotasksPending
    /\ p2 # params
    /\ Edited(p2) <= MaxEdited
    /\ \E u0 \in {url}, u1 \in {buildSearchURL(p2)}, p3 \in {pageResetEffect(p2)} :
       \E st1 \in {IF u1 # u0 THEN fetchEffect(ctlState, u1) ELSE ctlState} :
       \E early \in (IF p3.page # p2.page /\ st1.fetches # {} THEN BOOLEAN ELSE {FALSE}) :
       \E st2 \in {IF p3.page # p2.page
                   THEN fetchEffect(IF early THEN settleAborted(st1) ELSE st1,
                                    buildSearchURL(p3))
                   ELSE st1} :
            /\ title' = p3.title /\ author' = p3.author /\ subject' = p3.subject
            /\ language' = p3.language /\ yearFrom' = p3.yearFrom
            /\ yearTo' = p3.yearTo /\ sort' = p3.sort /\ page' = p3.page
            /\ abortRef' = st2.abortRef /\ aborted' = st2.aborted
            /\ timers' = st2.timers /\ fetches' = st2.fetches
            /\ loading' = st2.loading /\ error' = st2.error
            /\ sinceUrl' = IF u1 # u0 \/ p3.page # p2.page THEN 0 ELSE sinceUrl
            /\ fresh' = IF u1 # u0 \/ p3.page # p2.page THEN FALSE ELSE fresh
    /\ sinceChange' = 0
    /\ lastOp' = Op("filter")
    /\ UNCHANGED <<results, numFound, favorites, recency, storeVars>>

setTitle(v) == FilterChange([params EXCEPT !.title = v])
setAuthor(v) == FilterChange([params EXCEPT !.author = v])
setSubject(v) == FilterChange([params EXCEPT !.subject = v])
setLanguage(v) == FilterChange([params EXCEPT !.language = v])
setYearFrom(v) == FilterChange([params EXCEPT !.yearFrom = v])
setYearTo(v) == FilterChange([params EXCEPT !.yearTo = v])
setSort(v) == FilterChange([params EXCEPT !.sort = v])

\* A change of page alone: the render and the fetch effect (url always changes).
PageChange(p, name) ==
    /\ ~MicrotasksPending
    /\ p # page
    /\ \E st1 \in {fetchEffect(ctlState, buildSearchURL([params EXCEPT !.page = p]))} :
          /\ abortRef' = st1.abortRef /\ aborted' = st1.aborted
          /\ timers' = st1.timers /\ fetches' = st1.fetches
          /\ loading' = st1.loading /\ error' = st1.error
    /\ page' = p
    /\ sinceChange' = 0 /\ sinceUrl' = 0
    /\ fresh' = FALSE
    /\ lastOp' = Op(name)
    /\ UNCHANGED <<title, author, subject, language, yearFrom, yearTo, sort,
                   results, numFound, favorites, recency, storeVars>>

\* The paging controls are rendered when numFound > pageSize.
\* onClick={() => setPage((p) => Math.max(1, p - 1))}  disabled={page === 1 || loading}
prevPage(p) == Max(1, p - 1)
Prev ==
    /\ numFound > pageSize
    /\ ~(page = 1 \/ loading)
    /\ PageChange(prevPage(page), "prev")

\* onClick={() => setPage((p) => Math.min(totalPages, p + 1))}  disabled={page >= totalPages || loading}
nextPage(p, tp) == Min(tp, p + 1)
NextPage ==
    /\ numFound > pageSize
    /\ ~(page >= totalPages \/ loading)
    /\ PageChange(nextPage(page, totalPages), "next")

\* TickMs milliseconds pass; a timer that is due runs before more time passes.
Tick ==
    /\ ~MicrotasksPending
    /\ \A t \in timers : t.remaining > 0
    /\ timers' = {[t EXCEPT !.remaining = t.remaining - Min(TickMs, t.remaining)] : t \in timers}
    /\ sinceChange' = Min(QuietMs, sinceChange + TickMs)
    /\ sinceUrl' = Min(QuietMs, sinceUrl + TickMs)
    /\ UNCHANGED <<filterVars, results, numFound, loading, error, favorites,
                   abortRef, aborted, fetches, recency, lastOp, storeVars, fresh>>

\* The setTimeout callback: fetch(url, { signal: ctl.signal }) with the url and
\* ctl of the effect run that set the timer.
TimerFire(t) ==
    /\ ~MicrotasksPending
    /\ t \in timers
    /\ t.remaining = 0
    /\ timers' = timers \ {t}
    /\ fetches' = {[f EXCEPT !.latest = FALSE] : f \in fetches}
                  \cup {[signal |-> fetchInit(t.ctl).signal, url |-> t.url,
                         latest |-> TRUE, supersedes |-> t.supersedes]}
    /\ lastOp' = [Op("issue") EXCEPT !.flag = t.restarted]
    /\ UNCHANGED <<filterVars, results, numFound, loading, error, favorites,
                   abortRef, aborted, sinceChange, sinceUrl, recency, storeVars, fresh>>

SettledNoFinally(f) ==
    /\ fetches' = fetches \ {f}
    /\ aborted' = aborted \cap InUse(timers, fetches \ {f})
    /\ loading' = loading
    /\ fresh' = (f.url = url)
    /\ UNCHANGED <<filterVars, favorites, abortRef, timers, sinceChange, sinceUrl, recency,
                   storeVars>>
\* .finally(() => setLoading(false)), after the then or catch handler
Settled(f) ==
    /\ fetches' = fetches \ {f}
    /\ aborted' = aborted \cap InUse(timers, fetches \ {f})
    /\ loading' = FALSE
    /\ fresh' = (f.url = url)
    /\ UNCHANGED <<filterVars, favorites, abortRef, timers, sinceChange, sinceUrl, recency,
                   storeVars>>

\* r.ok, r.json() resolves: setResults(json.docs || []); setNumFound(json.numFound || 0)
Resolve(f, json) ==
    /\ ~MicrotasksPending
    /\ f \in fetches /\ Live(f)
    /\ results' = IF json.hasDocs THEN json.docs ELSE <<>>
    /\ numFound' = IF json.hasNumFound THEN json.numFound ELSE 0
    /\ lastOp' = [Op("resolve") EXCEPT !.flag = f.supersedes]
    /\ Settled(f)
    /\ UNCHANGED error

\* The chain rejects with e: a thrown Error(`Request failed: ${r.status}`), a
\* network failure of fetch, or a body that does not parse.
Reject(f, e) ==
    /\ ~MicrotasksPending
    /\ f \in fetches /\ Live(f)
    /\ error' = catchError(e, error)
    /\ lastOp' = [Op("reject") EXCEPT !.flag = (e.name = "Error")]
    /\ Settled(f)
    /\ UNCHANGED <<results, numFound>>

HttpError(f, status) ==
    Reject(f, [name |-> "Error", message |-> <<"Request failed: ", status>>])

NetworkError(f, msg) ==
    Reject(f, [name |-> "TypeError", message |-> msg])

\* The promise of an aborted fetch rejects with an AbortError.
AbortSettle ==
    /\ MicrotasksPending
    /\ \E st \in {settleAborted(ctlState)} :
          /\ fetches' = st.fetches /\ aborted' = st.aborted
          /\ loading' = st.loading /\ error' = st.error
    /\ lastOp' = Op("abortSettle")
    /\ UNCHANGED <<filterVars, results, numFound, favorites, abortRef, timers,
                   sinceChange, sinceUrl, recency, storeVars, fresh>>

\* The render after setFavorites(value) and the effect of useLocalStorage.
Persist(value) ==
    \E w \in {persistEffect(env, storage, value)} :
        /\ storage' = w.storage
        /\ env' = [env EXCEPT !.failed = @ \/ w.threw]
        /\ phase' = IF w.escaped THEN "crashed" ELSE "running"

\* setFavorites(updater) for doc
Toggle(doc) ==
    /\ phase = "running"
    /\ \E value \in {toggleFavorite(favorites, doc)} :
          favorites' = value /\ Persist(value)
    /\ recency' = IF isFav(favorites, doc) THEN Without(recency, doc.key)
                  ELSE <<doc.key>> \o Without(recency, doc.key)
    /\ lastOp' = [op |-> "toggle", page |-> page, flag |-> isFav(favorites, doc),
                  key |-> doc.key, prevKey |-> lastOp.key]
    /\ UNCHANGED <<filterVars, results, numFound, fetchVars, sinceChange, sinceUrl, fresh>>

\* The Save / Remove buttons of a result card (rendered when not loading) and of
\* a favorites card.
ToggleCard ==
    /\ ~MicrotasksPending
    /\ \E doc \in (IF loading THEN {} ELSE Range(results)) \cup Range(favorites) : Toggle(doc)

\* "Clear all", rendered when favorites.length > 0: setFavorites([])
ClearAll ==
    /\ ~MicrotasksPending
    /\ phase = "running"
    /\ Len(favorites) > 0
    /\ favorites' = <<>>
    /\ Persist(<<>>)
    /\ recency' = <<>>
    /\ lastOp' = Op("clear")
    /\ UNCHANGED <<filterVars, results, numFound, fetchVars, sinceChange, sinceUrl, fresh>>

\* ----------------------------------------------------------- specification

InitParams ==
    [title |-> <<>>, author |-> <<>>, subject |-> <<>>, language |-> <<>>,
     yearFrom |-> <<>>, yearTo |-> <<>>, sort |-> "relevance", page |-> 1]

\* localStorage works; found is the entry the useState initializer met.
WorkingStore(found) ==
    [writable |-> TRUE, failed |-> FALSE, found |-> found]

\* The useState initial values, then the effects of the first render.
Mounted ==
    effectBody([abortRef |-> 0, aborted |-> {}, timers |-> {}, fetches |-> {},
                loading |-> FALSE, error |-> NoError],
               buildSearchURL(InitParams), FALSE, FALSE)

Init ==
    /\ title = <<>> /\ author = <<>> /\ subject = <<>> /\ language = <<>>
    /\ yearFrom = <<>> /\ yearTo = <<>> /\ sort = "relevance" /\ page = 1
    /\ results = <<>> /\ numFound = 0
    /\ loading = Mounted.loading /\ error = Mounted.error
    /\ abortRef = Mounted.abortRef /\ aborted = Mounted.aborted
    /\ timers = Mounted.timers /\ fetches = Mounted.fetches
    /\ favorites = <<>> /\ recency = <<>>
    /\ sinceChange = 0 /\ sinceUrl = 0
    /\ lastOp = [op |-> "mount", page |-> 1, flag |-> FALSE, key |-> 0, prevKey |-> 0]
    /\ storage = Stored(stringify(<<>>))
    /\ env = WorkingStore(Absent)
    /\ phase = "running"
    /\ fresh = FALSE

Next ==
    \/ \E v \in TitleInputs : setTitle(v)
    \/ \E v \in AuthorInputs : setAuthor(v)
    \/ \E v \in SubjectInputs : setSubject(v)
    \/ \E v \in LanguageInputs : setLanguage(v)
    \/ \E v \in YearFromInputs : setYearFrom(v)
    \/ \E v \in YearToInputs : setYearTo(v)
    \/ \E v \in SortInputs : setSort(v)
    \/ Prev
    \/ NextPage
    \/ Tick
    \/ \E t \in timers : TimerFire(t)
    \/ \E f \in fetches, json \in JsonBodies : Resolve(f, json)
    \/ \E f \in fetches, status \in HttpErrorStatuses : HttpError(f, status)
    \/ \E f \in fetches, msg \in NetworkMessages : NetworkError(f, msg)
    \/ AbortSettle
    \/ ToggleCard
    \/ ClearAll

Spec == Init /\ [][Next]_vars

\* Time passes and a due setTimeout callback runs; queued promise reactions
\* run; the network answers every request that is not canceled.
Fairness ==
    /\ WF_vars(Tick)
    /\ WF_vars(\E t \in timers : TimerFire(t))
    /\ WF_vars(AbortSettle)
    /\ WF_vars(\E f \in fetches :
                  \/ \E json \in JsonBodies : Resolve(f, json)
                  \/ \E status \in HttpErrorStatuses : HttpError(f, status)
                  \/ \E msg \in NetworkMessages : NetworkError(f, msg))

\* The search side of the application: every task except those of the
\* favorites buttons, which neither read nor write the state of the fetch cycle.
NextLive ==
    \/ \E v \in TitleInputs : setTitle(v)
    \/ \E v \in AuthorInputs : setAuthor(v)
    \/ \E v \in SubjectInputs : setSubject(v)
    \/ \E v \in LanguageInputs : setLanguage(v)
    \/ \E v \in YearFromInputs : setYearFrom(v)
    \/ \E v \in YearToInputs : setYearTo(v)
    \/ \E v \in SortInputs : setSort(v)
    \/ Prev
    \/ NextPage
    \/ Tick
    \/ \E t \in timers : TimerFire(t)
    \/ \E f \in fetches, json \in JsonBodies : Resolve(f, json)
    \/ \E f \in fetches, status \in HttpErrorStatuses : HttpError(f, status)
    \/ \E f \in fetches, msg \in NetworkMessages : NetworkError(f, msg)
    \/ AbortSettle

SpecLive == Init /\ [][NextLive]_vars /\ Fairness

\* ------------------------------------------------- favorites specification

\* A list stored by an earlier session: n documents, the newest (key n) first.
Persisted(n) == [i \in 1..n |-> Doc(n + 1 - i, 0)]
FavInitSizes == {0, FavLimit - 1, FavLimit}
\* The documents toggled: the oldest and the newest stored ones and MaxNew new
\* ones, each in two snapshots that share the key.
FavKeys == {1, FavLimit} \cup (FavLimit + 1)..(FavLimit + MaxNew)
FavDocs == {Doc(k, r) : k \in FavKeys, r \in 0..1}

InitFav ==
    /\ title = <<>> /\ author = <<>> /\ subject = <<>> /\ language = <<>>
    /\ yearFrom = <<>> /\ yearTo = <<>> /\ sort = "relevance" /\ page = 1
    /\ results = <<>> /\ numFound = 0
    /\ loading = Mounted.loading /\ error = Mounted.error
    /\ abortRef = Mounted.abortRef /\ aborted = Mounted.aborted
    /\ timers = Mounted.timers /\ fetches = Mounted.fetches
    /\ \E n \in FavInitSizes : favorites = Persisted(n)
    /\ recency = Keys(favorites)
    /\ sinceChange = 0 /\ sinceUrl = 0
    /\ lastOp = [op |-> "mount", page |-> 1, flag |-> FALSE, key |-> 0, prevKey |-> 0]
    /\ storage = Stored(stringify(favorites))
    /\ env = WorkingStore(storage)
    /\ phase = "running"
    /\ fresh = FALSE

NextFav ==
    \/ \E doc \in FavDocs : Toggle(doc)
    \/ ClearAll

SpecFav == InitFav /\ [][NextFav]_vars

\* ---------------------------------------------- query builder specification

\* Arguments of buildSearchURL: text with and without surrounding and inner
\* white space, each sort option and a value that is none of them.
TitleArgs == {<<>>, <<" ">>, <<"D">>, <<" ", "D", "\t">>, <<"D", " ", "u">>}
AuthorArgs == {<<>>, <<"H">>, <<"\t", "H">>}
SubjectArgs == {<<>>, <<"s", " ">>}
SortArgs == {"relevance", "year_asc", "year_desc", "editions_desc", "title"}
BuildArgs ==
    [title : TitleArgs, author : AuthorArgs, subject : SubjectArgs,
     language : LanguageInputs, yearFrom : YearFromInputs, yearTo : YearToInputs,
     sort : SortArgs, page : 1..MaxPageArg]

\* The application with its state set to some arguments and a result list long
\* enough for the page: the fetch effect has run for their url.
InitURL ==
    /\ \E p \in BuildArgs :
          /\ title = p.title /\ author = p.author /\ subject = p.subject
          /\ language = p.language /\ yearFrom = p.yearFrom /\ yearTo = p.yearTo
          /\ sort = p.sort /\ page = p.page
          /\ \E st \in {effectBody([abortRef |-> 0, aborted |-> {}, timers |-> {},
                                     fetches |-> {}, loading |-> FALSE, error |-> NoError],
                                    buildSearchURL(p), FALSE, FALSE)} :
                /\ loading = st.loading /\ error = st.error
                /\ abortRef = st.abortRef /\ aborted = st.aborted
                /\ timers = st.timers /\ fetches = st.fetches
    /\ results = <<>> /\ numFound = pageSize * page
    /\ favorites = <<>> /\ recency = <<>>
    /\ sinceChange = 0 /\ sinceUrl = 0
    /\ lastOp = Op("filter")
    /\ storage = Stored(stringify(<<>>))
    /\ env = WorkingStore(Absent)
    /\ phase = "running"
    /\ fresh = FALSE

\* The debounce delay passes and the request is issued.
NextURL ==
    \/ Tick
    \/ \E t \in timers : TimerFire(t)

SpecURL == InitURL /\ [][NextURL]_vars

\* --------------------------------------------------- storage specification

\* Entries met at startup: none, the empty string, lists written by an earlier
\* session, text that JSON.parse rejects (cut off, a trailing comma, not JSON),
\* and the JSON text null.
StoredLists == {Persisted(n) : n \in 0..MaxStored}
UnparsableBlobs ==
    {<<Tok("[")>>,
     <<Tok("["), ObjTok(Doc(1, 0))>>,
     <<Tok("["), ObjTok(Doc(1, 0)), Tok(","), Tok("]")>>,
     <<Tok("x")>>}
NullBlob == <<Tok("null")>>
StartEntries ==
    {Absent, Stored(<<>>)} \cup {Stored(stringify(l)) : l \in StoredLists}
    \cup {Stored(b) : b \in UnparsableBlobs} \cup {Stored(NullBlob)}
StoreDocs == {Doc(k, r) : k \in 1..(MaxStored + 1), r \in 0..1}

\* Before the first render: the useState initial values, localStorage in any
\* condition.
InitStore ==
    /\ title = <<>> /\ author = <<>> /\ subject = <<>> /\ language = <<>>
    /\ yearFrom = <<>> /\ yearTo = <<>> /\ sort = "relevance" /\ page = 1
    /\ results = <<>> /\ numFound = 0
    /\ loading = FALSE /\ error = NoError
    /\ abortRef = 0 /\ aborted = {}
    /\ timers = {} /\ fetches = {}
    /\ favorites = <<>> /\ recency = <<>>
    /\ sinceChange = 0 /\ sinceUrl = 0
    /\ lastOp = [op |-> "start", page |-> 1, flag |-> FALSE, key |-> 0, prevKey |-> 0]
    /\ storage \in StartEntries
    /\ \E w \in BOOLEAN : env = [writable |-> w, failed |-> FALSE, found |-> storage]
    /\ phase = "start"
    /\ fresh = FALSE

\* The first render and its effects; getItem returns the entry (readable) or
\* throws.  favorites is the value of the useState initializer; with null the
\* render throws at favorites.length and nothing is mounted, so no effect runs.
\* (A stored single object is not among StartEntries.)
Mount ==
    /\ phase = "start"
    /\ \E readable \in BOOLEAN :
       \E v \in {readInitial(readable, storage, <<>>)} :
          /\ lastOp' = [Op("mount") EXCEPT !.flag = ~readable]
          /\ v.kind \in {"array", "null"}
          /\ IF v.kind = "array"
             THEN /\ favorites' = v.value
                  /\ recency' = Keys(v.value)
                  /\ Persist(v.value)
                  /\ loading' = Mounted.loading /\ error' = Mounted.error
                  /\ abortRef' = Mounted.abortRef /\ aborted' = Mounted.aborted
                  /\ timers' = Mounted.timers /\ fetches' = Mounted.fetches
             ELSE /\ phase' = "crashed"
                  /\ UNCHANGED <<favorites, recency, storage, env, fetchVars>>
    /\ UNCHANGED <<filterVars, results, numFound, sinceChange, sinceUrl, fresh>>

\* localStorage.setItem starts or stops throwing (quota, blocked storage).
SetItemChange ==
    /\ phase = "running"
    /\ env' = [env EXCEPT !.writable = ~@]
    /\ UNCHANGED <<filterVars, results, numFound, fetchVars, favorites, recency,
                   sinceChange, sinceUrl, lastOp, storage, phase, fresh>>

NextStore ==
    \/ Mount
    \/ \E doc \in StoreDocs : Toggle(doc)
    \/ ClearAll
    \/ SetItemChange

SpecStore == InitStore /\ [][NextStore]_vars

\* ------------------------------------------------------------------ claims

LiveFetches == {f \in fetches : Live(f)}

\* C1: the only response ever applied is that of the most recently issued
\* request, and it is a response for the current url: a step that writes
\* results or numFound is the settlement of the request issued last, so the
\* response of a request that a newer one superseded is never applied.
C1_Supersession ==
    [][ /\ (results' # results \/ numFound' # numFound) => lastOp'.op = "resolve"
        /\ \A f \in fetches :
             (f \notin fetches' /\ lastOp'.op = "resolve") => (f.latest /\ f.url = url)
      ]_vars

\* The response of a request was applied whose cycle had replaced a request
\* that was still in flight.
C1_Witness == lastOp.op = "resolve" /\ lastOp.flag

\* C2 (as claimed): while a debounce timer is pending or a request that was
\* not canceled is in flight, loading is true.
C2_LoadingHeld == (timers # {} \/ LiveFetches # {}) => loading

\* C3 (as claimed): a request is issued only when QuietMs have passed since the
\* last change of any filter field or of page, by the only pending timer, and
\* it carries the current filter state.
C3_DebounceAnyChange ==
    /\ Cardinality(timers) <= 1
    /\ \A t \in timers : t.url = url
    /\ lastOp.op = "issue" =>
         /\ sinceChange = QuietMs
         /\ timers = {}
         /\ \A f \in fetches : f.latest => f.url = url

\* C3 (amended): a request is issued only when QuietMs have passed since the
\* last change that changed the request URL, by the only pending timer, and it
\* carries the current filter state; no other timer is left to issue one.
C3_Debounce ==
    /\ Cardinality(timers) <= 1
    /\ \A t \in timers : t.url = url
    /\ lastOp.op = "issue" =>
         /\ sinceUrl = QuietMs
         /\ timers = {}
         /\ \A f \in fetches : f.latest => f.url = url

\* A request was issued by a timer that had replaced a pending timer: changes
\* arrived within the quiet period and one request was issued for them.
C3_Witness == lastOp.op = "issue" /\ lastOp.flag /\ LiveFetches # {}

\* C4: after a change of a filter field page is 1, and every pending timer and
\* every request in flight that was not canceled is for the url of the current
\* fields and page; none combines the changed field with the old page.
C4_PageReset ==
    /\ lastOp.op = "filter" => page = 1
    /\ \A t \in timers : t.url = buildSearchURL(params)
    /\ \A f \in LiveFetches : f.url = buildSearchURL(params)

\* A filter field was changed while page was greater than 1.
C4_Witness == lastOp.op = "filter" /\ lastOp.page > 1 /\ page = 1 /\ timers # {}

\* C5: at most one request is in flight and not canceled, and while the timer
\* of a newer cycle is pending every request still in flight is canceled.
C5_SingleFlight ==
    /\ Cardinality(LiveFetches) <= 1
    /\ timers # {} => \A f \in fetches : Aborted(f)

\* A request is in flight whose cycle canceled an earlier request in flight.
C5_Witness == \E f \in LiveFetches : f.supersedes

\* C6: the settlement of a failed request leaves results, numFound, favorites and
\* the filter state as they were; a rejection that is not an AbortError sets
\* error to its message (the status code for a non-2xx response) and the
\* rejection of a canceled request leaves no error.
C6_FailureHandling ==
    [][ (lastOp'.op \in {"reject", "abortSettle"} /\ fetches' # fetches) =>
          /\ UNCHANGED <<results, numFound, favorites, filterVars>>
          /\ lastOp'.op = "abortSettle" => error' = NoError
          /\ lastOp'.op = "reject" =>
               /\ error' # NoError
               /\ lastOp'.flag =>
                    \E status \in HttpErrorStatuses : error' = <<"Request failed: ", status>>
               /\ ~lastOp'.flag => error' \in NetworkMessages
      ]_vars

\* A request failed after results were shown and a favorite was stored.
C6_Witness ==
    /\ lastOp.op = "reject" /\ error # NoError
    /\ results # <<>> /\ favorites # <<>> /\ params # InitParams

\* The least k >= 1 with k * 20 >= n: max(1, ceiling(n / 20)).
CeilPages(n) == CHOOSE k \in 1..(n + 1) : k * 20 >= n /\ \A j \in 1..(k - 1) : j * 20 < n

\* C10: totalPages is max(1, ceiling(numFound / 20)), which is 3 for 45, and a
\* page set by Prev or Next lies in 1..totalPages.
C10_PaginationBounds ==
    /\ totalPages = CeilPages(numFound)
    /\ totalPagesOf(45) = 3
    /\ lastOp.op \in {"prev", "next"} => (page >= 1 /\ page <= CeilPages(numFound))

\* Next was clicked up to the last of the 3 pages of 45 results.
C10_Witness == lastOp.op = "next" /\ numFound = 45 /\ page = 3 /\ lastOp.page = 2

\* C7: toggle(doc) on the favorites list: when an entry has doc's key the
\* result is the list without that entry, the others in order; otherwise it is
\* doc followed by the list, cut to 100 entries, so that a full list loses its
\* last entry.
C7_Toggle ==
    \A doc \in FavDocs :
        LET L == favorites
            R == toggleFavorite(L, doc)
        IN IF \E i \in 1..Len(L) : L[i].key = doc.key
           THEN \E i \in 1..Len(L) :
                  /\ L[i].key = doc.key
                  /\ Len(R) = Len(L) - 1
                  /\ \A j \in 1..Len(R) : R[j] = IF j < i THEN L[j] ELSE L[j + 1]
           ELSE /\ Len(R) = (IF Len(L) < 100 THEN Len(L) + 1 ELSE 100)
                /\ R[1] = doc
                /\ \A j \in 2..Len(R) : R[j] = L[j - 1]
                /\ Len(L) = 100 => L[100] \notin Range(R)

\* A 101st document was added to a full list: 100 entries remain and the
\* oldest is gone.
C7_Witness ==
    /\ lastOp.op = "toggle" /\ ~lastOp.flag
    /\ Len(favorites) = 100 /\ favorites[1].key = 101
    /\ ~isFav(favorites, Doc(1, 0))
    /\ Len(recency) = 101

\* C8: the favorites list has no two entries with the same key, at most 100
\* entries, and lists its keys in the order they were added, newest first.
C8_FavoritesSet ==
    /\ \A i, j \in 1..Len(favorites) : favorites[i].key = favorites[j].key => i = j
    /\ Len(favorites) <= 100
    /\ Len(recency) >= Len(favorites)
    /\ Keys(favorites) = SubSeq(recency, 1, Len(favorites))

\* Two documents were added to an empty list: the later one comes first.
C8_Witness ==
    /\ lastOp.op = "toggle" /\ Len(favorites) = 2
    /\ favorites[1].key = 101 /\ favorites[2].key = 100

\* C9: two toggles with the same key, one right after the other, leave the
\* answer of isFavorite for that key as it was.
C9_ToggleTwice ==
    \A d1, d2 \in FavDocs :
        d1.key = d2.key =>
            (isFav(toggleFavorite(toggleFavorite(favorites, d1), d2), d1)
                <=> isFav(favorites, d1))

\* The same key was toggled twice in a row on a full list: the document is
\* again not a favorite, though the list is not what it was.
C9_Witness ==
    /\ lastOp.op = "toggle" /\ lastOp.key = lastOp.prevKey /\ lastOp.flag
    /\ lastOp.key = 101 /\ Len(favorites) = 99
    /\ ~isFav(favorites, Doc(101, 0))

\* An entry whose text is neither empty nor the serialization of a favorites
\* list.
Unusable(st) ==
    st.present /\ st.raw # <<>> /\ st.raw \notin {stringify(l) : l \in StoredLists}

\* C11: startup never fails because of the stored content: right after the
\* first render, when the read threw or the entry met was not a usable list,
\* the application is running with an empty favorites list.
C11_StartupNeverFails ==
    (lastOp.op = "mount" /\ (lastOp.flag \/ Unusable(env.found)))
        => (phase = "running" /\ favorites = <<>>)

\* C12: every favorites mutation persists the resulting list: a toggle or a
\* clear done while setItem works leaves the entry equal to the serialization
\* of the new in-memory list.
C12_PersistOnMutation ==
    [][(phase = "running" /\ favorites' # favorites /\ env.writable)
          => storage' = Stored(stringify(favorites'))]_vars

C12_Witness ==
    /\ lastOp.op = "toggle" /\ lastOp.flag
    /\ Len(favorites) = 1
    /\ env.writable /\ env.failed
    /\ storage = Stored(stringify(favorites))

\* The keys of a favorites list, as a set.
KeySet(favs) == Range(Keys(favs))

\* C17: a failing durable write is swallowed: a toggle or a clear done while
\* setItem throws, or after it has thrown, leaves the application running
\* with no error set and with exactly the mutated list in memory (clear
\* empties it, toggle flips the membership of the toggled key and of no
\* other); while setItem throws the entry keeps its text.
C17_WriteFailureSwallowed ==
    [][(phase = "running" /\ favorites' # favorites /\ (~env.writable \/ env.failed))
          => /\ phase' = "running"
             /\ error' = error
             /\ ~env.writable => (storage' = storage /\ env'.failed)
             /\ lastOp'.op \in {"toggle", "clear"}
             /\ lastOp'.op = "clear" => favorites' = <<>>
             /\ lastOp'.op = "toggle" =>
                    KeySet(favorites') =
                        IF lastOp'.key \in KeySet(favorites)
                        THEN KeySet(favorites) \ {lastOp'.key}
                        ELSE KeySet(favorites) \cup {lastOp'.key}]_vars

C17_Witness ==
    /\ phase = "running"
    /\ lastOp.op = "toggle" /\ lastOp.flag
    /\ ~env.writable /\ env.failed
    /\ Len(favorites) = 1
    /\ storage # Stored(stringify(favorites))

\* C20: the persist step also runs at startup: whenever the application is
\* running and no setItem has thrown, the entry is the serialization of the
\* in-memory list (it parses back to that list); right after a startup that
\* met an unusable entry the list is empty, so the entry holds the empty list.
C20_StartupPersist ==
    (phase = "running" /\ ~env.failed)
        => /\ storage.present
           /\ JSONparse(storage.raw) = [threw |-> FALSE, kind |-> "array", value |-> favorites]
           /\ (lastOp.op = "mount" /\ Unusable(env.found))
                 => (favorites = <<>> /\ storage = Stored(stringify(<<>>)))

C20_Witness ==
    /\ phase = "running" /\ ~env.failed
    /\ lastOp.op = "mount"
    /\ env.found.raw \in UnparsableBlobs
    /\ storage = Stored(stringify(<<>>))

\* The urls of the pending timers and of the requests in flight, and the
\* current url.
Requests == {url} \cup {t.url : t \in timers} \cup {f.url : f \in fetches}
\* The values a request carries for a parameter name.
Values(u, name) == {u[i][2] : i \in {j \in 1..Len(u) : u[j][1] = name}}
Names(u) == {u[i][1] : i \in 1..Len(u)}

\* C13: the request carries a q parameter if and only if yearFrom or yearTo
\* is set, and its value is then first_publish_year:[F TO T] with F and T the
\* year given or * when it is not set.
C13_YearRange ==
    \A u \in Requests :
        /\ ("q" \in Names(u)) <=> (yearFrom # <<>> \/ yearTo # <<>>)
        /\ "q" \in Names(u) =>
              Values(u, "q") =
                 {<<"first_publish_year:[">>
                  \o (IF yearFrom = <<>> THEN <<"*">> ELSE yearFrom)
                  \o <<" TO ">>
                  \o (IF yearTo = <<>> THEN <<"*">> ELSE yearTo)
                  \o <<"]">>}

\* yearFrom = "1990", yearTo = "" gives first_publish_year:[1990 TO *], in the
\* request that was issued.
C13_Witness ==
    /\ yearFrom = <<"1", "9", "9", "0">> /\ yearTo = <<>>
    /\ \E f \in fetches :
          Values(f.url, "q") = {<<"first_publish_year:[", "1", "9", "9", "0", " TO ", "*", "]">>}

\* C14: year_asc, year_desc and editions_desc map to their sort parameter;
\* relevance and every other value give a request without a sort parameter,
\* the same request as for relevance.
C14_SortMapping ==
    \A u \in Requests :
        /\ sort = "year_asc" => Values(u, "sort") = {<<"first_publish_year asc">>}
        /\ sort = "year_desc" => Values(u, "sort") = {<<"first_publish_year desc">>}
        /\ sort = "editions_desc" => Values(u, "sort") = {<<"edition_count desc">>}
        /\ sort \notin {"year_asc", "year_desc", "editions_desc"} =>
              /\ "sort" \notin Names(u)
              /\ u = buildSearchURL([params EXCEPT !.sort = "relevance"])

C14_Witness ==
    /\ sort = "title"
    /\ \E f \in fetches :
          "sort" \notin Names(f.url) /\ Values(f.url, "page") = {<<"2">>}

\* The text between the first and the last character that is not white space.
Strip(s) ==
    LET solid == {i \in 1..Len(s) : ~IsSpace(s[i])}
    IN  IF solid = {} THEN <<>>
        ELSE SubSeq(s, CHOOSE i \in solid : \A j \in solid : i <= j,
                       CHOOSE i \in solid : \A j \in solid : i >= j)

\* C15: title, author and subject appear if and only if they are not empty
\* after trimming, with the trimmed value; language appears if and only if a
\* code is selected; page always appears; arguments that differ only in white
\* space around the text fields give the identical request.
C15_ParameterPresence ==
    \A u \in Requests :
        /\ \A n \in {"title", "author", "subject"} :
              /\ (n \in Names(u)) <=> (Strip(params[n]) # <<>>)
              /\ n \in Names(u) => Values(u, n) = {Strip(params[n])}
        /\ ("language" \in Names(u)) <=> (language # <<>>)
        /\ "language" \in Names(u) => Values(u, "language") = {language}
        /\ Values(u, "page") = {String(page)}
        /\ \A t \in TitleArgs, a \in AuthorArgs, b \in SubjectArgs :
              (Strip(t) = Strip(title) /\ Strip(a) = Strip(author) /\ Strip(b) = Strip(subject))
                 => buildSearchURL([params EXCEPT !.title = t, !.author = a, !.subject = b]) = u

C15_Witness ==
    /\ title = <<" ", "D", "\t">> /\ author = <<"\t", "H">> /\ subject = <<>>
    /\ language = <<"eng">>
    /\ \E f \in fetches :
          /\ Values(f.url, "title") = {<<"D">>} /\ Values(f.url, "author") = {<<"H">>}
          /\ Names(f.url) = {"title", "author", "language", "page"}

\* A change of a filter field or of page was the last task and no time has
\* passed since.
JustChanged == lastOp.op \in {"filter", "prev", "next"} /\ sinceChange = 0

\* The debounce timer of a new cycle is pending with its full delay for the
\* current url, it is the only timer, and every request in flight is canceled.
CycleStarted ==
    /\ \E t \in timers : t.remaining = QuietMs /\ t.url = url /\ t.ctl = abortRef
    /\ Cardinality(timers) = 1
    /\ LiveFetches = {}

\* C16 (as claimed): every change of a filter field or of page starts a
\* request cycle.
C16_AnyChangeStartsCycle == JustChanged => CycleStarted

\* The identities of the AbortControllers alive at a time.
Controllers == 1..4

\* C16 (amended): every change that changes the request URL starts a request
\* cycle, abandoning the pending one; a pending timer goes away only by
\* issuing the request for its url or by a change of the URL; and every
\* pending timer does go away, so a cycle that no later URL change abandons
\* issues its request.
C16_UrlChangeStartsCycle ==
    /\ []((JustChanged /\ sinceUrl = 0) => CycleStarted)
    /\ [](\A t \in timers : t.ctl \in Controllers)
    /\ [][\A t \in timers :
            (\A t2 \in timers' : t2.ctl # t.ctl)
               => \/ \E f \in fetches' : f.latest /\ f.signal = t.ctl /\ f.url = t.url
                                          /\ f.url = url'
                  \/ url' # url \/ page' # page]_vars
    /\ \A c \in Controllers :
          (\E t \in timers : t.ctl = c) ~> (\A t \in timers : t.ctl # c)

\* A URL change made while idle (an earlier request had settled, no timer was
\* pending and no request was in flight) was followed by the request for the
\* changed state.
C16_Witness ==
    /\ lastOp.op = "issue" /\ ~lastOp.flag
    /\ results # <<>>
    /\ \E f \in LiveFetches :
          ~f.supersedes /\ f.url = url /\ f.url # buildSearchURL(InitParams)

\* C18: an error is shown for the latest request only: a change of the URL
\* leaves no error, and whenever an error is set no debounce timer is pending
\* and no request that was not canceled is in flight.
C18_ErrorIsLatest ==
    /\ (JustChanged /\ sinceUrl = 0) => error = NoError
    /\ error # NoError => (timers = {} /\ LiveFetches = {})

\* The request for a changed URL failed and its error is shown.
C18_Witness ==
    /\ error # NoError
    /\ lastOp.op = "reject"
    /\ url # buildSearchURL(InitParams)
    /\ timers = {} /\ fetches = {}

\* The request for the current url has settled and what it wrote is shown:
\* nothing is pending or in flight and loading is false.
Displayed == timers = {} /\ fetches = {} /\ ~loading /\ fresh

\* C19: if the URL stops changing, the request for the current URL is issued
\* and settles, and from then on loading is false and results, numFound and
\* error are the ones that request wrote; they stay as they are until the URL
\* changes.
C19_SettlesForCurrentUrl ==
    /\ (<>[][url' = url]_vars) => <>[]Displayed
    /\ [][(Displayed /\ url' = url)
            => (Displayed' /\ results' = results /\ numFound' = numFound
                /\ error' = error)]_vars

\* The request for a changed URL succeeded after an earlier cycle was
\* abandoned, and its results are shown.
C19_Witness ==
    /\ Displayed
    /\ lastOp.op = "resolve" /\ lastOp.flag
    /\ url # buildSearchURL(InitParams)
    /\ results # <<>> /\ error = NoError
====
